---- MODULE Spec2Model ----
(***************************************************************************)
(* Model of package validate (Ramzec/go-valid): Validate, setDefaultValue  *)
(* and decodeTagFields, in both revisions kept in the repository           *)
(* (src/validator.go, the first revision; src/unnamed/part_000, the        *)
(* revision with defaults and range/length constraints).                   *)
(*                                                                         *)
(* A Go string is modelled as a sequence of tokens.  A token is a piece of *)
(* text holding neither ',' nor '=' nor '|' (those three are tokens of     *)
(* their own); concatenating the tokens gives the string.  Decimal digits, *)
(* '-' and '.' are always tokens of one character, so the numeric parsers  *)
(* work digit by digit.                                                    *)
(***************************************************************************)
EXTENDS Integers, Sequences, FiniteSets, TLC

(***************************************************************************)
(* Bounds of the model.                                                    *)
(***************************************************************************)
\* Go's int, int64, uint and uint64 are 64 bits wide; the model keeps the
\* wrap-around arithmetic at a width TLC can enumerate.
WordBits == 4
\* Side fields declared next to the field under test.
MaxSideFields == 1
\* Constraint clauses after the name clause of the tag under test.
MaxClauses == 2

(***************************************************************************)
(* Program constants.                                                      *)
(***************************************************************************)
VALIDATE_ERR_CODE_UNKNOWN == 0
VALIDATE_ERR_CODE_MISSING_REQ_PARAM == 1
VALIDATE_ERR_CODE_UNPARSABLE == 2
VALIDATE_ERR_CODE_TOO_LONG == 3
VALIDATE_ERR_CODE_TOO_SHORT == 4
VALIDATE_ERR_CODE_TOO_BIG == 5
VALIDATE_ERR_CODE_TOO_SMALL == 6
VALIDATE_ERR_CODE_INVALID == 7

TAG_FIELD_NAME == <<"name">>
TAG_FIELD_REQUIRED == <<"required">>
TAG_FIELD_MAX == <<"max">>
TAG_FIELD_MIN == <<"min">>
TAG_FIELD_MAX_LEN == <<"maxLen">>
TAG_FIELD_MIN_LEN == <<"minLen">>
TAG_FIELD_DEFAULT == <<"default">>
TAG_FIELD_ONE_OF == <<"oneof">>

(***************************************************************************)
(* Strings.                                                                *)
(***************************************************************************)
Digits == <<"0", "1", "2", "3", "4", "5", "6", "7", "8", "9">>

IsDigit(c) == \E d \in 1..10 : Digits[d] = c

DigitVal(c) == (CHOOSE d \in 1..10 : Digits[d] = c) - 1

\* Number of bytes of one token (what Go's len counts).
ByteLen(tok) ==
    CASE tok \in {"red", "min", "max"} -> 3
      [] tok \in {"name", "true"} -> 4
      [] tok \in {"green", "bogus", "false", "oneof"} -> 5
      [] tok \in {"minLen", "maxLen"} -> 6
      [] tok = "default" -> 7
      [] tok = "required" -> 8
      [] OTHER -> 1

RECURSIVE GoLen(_)
\* len(s) of a Go string: its length in bytes.
GoLen(s) == IF s = <<>> THEN 0 ELSE ByteLen(Head(s)) + GoLen(Tail(s))

\* Position of the first sep in s, 0 when there is none.
IndexOf(s, sep) ==
    IF \E k \in 1..Len(s) : s[k] = sep
    THEN CHOOSE k \in 1..Len(s) : s[k] = sep /\ \A j \in 1..(k - 1) : s[j] # sep
    ELSE 0

RECURSIVE Split(_, _)
\* strings.Split(s, sep): never an empty list, "" splits into [""].
Split(s, sep) ==
    LET k == IndexOf(s, sep)
    IN  IF k = 0 THEN <<s>>
        ELSE <<SubSeq(s, 1, k - 1)>> \o Split(SubSeq(s, k + 1, Len(s)), sep)

\* strings.SplitN(s, sep, 2): cut at the first sep only.
SplitN2(s, sep) ==
    LET k == IndexOf(s, sep)
    IN  IF k = 0 THEN <<s>>
        ELSE <<SubSeq(s, 1, k - 1), SubSeq(s, k + 1, Len(s))>>

RECURSIVE Join(_, _)
\* strings.Join(parts, sep); used to write the tags of the initial states.
Join(parts, sep) ==
    IF parts = <<>> THEN <<>>
    ELSE IF Len(parts) = 1 THEN parts[1]
    ELSE parts[1] \o <<sep>> \o Join(Tail(parts), sep)

(***************************************************************************)
(* strconv.                                                                *)
(***************************************************************************)
MaxUint == 2 ^ WordBits - 1
MaxInt == 2 ^ (WordBits - 1) - 1
MinInt == -(2 ^ (WordBits - 1))

ParseErr == [ok |-> FALSE, v |-> 0]

RECURSIVE ParseDigits(_, _)
\* The digit loop of strconv.ParseUint, base 10: the value, or -1 once it
\* passes the largest unsigned value (ErrRange).
ParseDigits(s, acc) ==
    IF s = <<>> THEN acc
    ELSE LET n == acc * 10 + DigitVal(Head(s))
         IN  IF n > MaxUint THEN -1 ELSE ParseDigits(Tail(s), n)

\* strconv.ParseUint(s, 10, 64): digits only, no sign, not empty, in range.
ParseUint(s) ==
    IF s = <<>> \/ \E k \in 1..Len(s) : ~IsDigit(s[k]) THEN ParseErr
    ELSE LET n == ParseDigits(s, 0)
         IN  IF n < 0 THEN ParseErr ELSE [ok |-> TRUE, v |-> n]

\* strconv.ParseInt(s, 10, 64): an optional sign, then ParseUint, then the
\* signed range check.
ParseInt(s) ==
    IF s = <<>> THEN ParseErr
    ELSE LET neg == Head(s) = "-"
             body == IF Head(s) \in {"-", "+"} THEN Tail(s) ELSE s
             u == ParseUint(body)
         IN  IF ~u.ok THEN ParseErr
             ELSE IF ~neg /\ u.v > MaxInt THEN ParseErr
             ELSE IF neg /\ u.v > -MinInt THEN ParseErr
             ELSE [ok |-> TRUE, v |-> IF neg THEN -u.v ELSE u.v]

RECURSIVE FloatDigits(_, _)
\* The digits of a float literal; a float64 has no overflow at these sizes.
FloatDigits(s, acc) ==
    IF s = <<>> THEN acc ELSE FloatDigits(Tail(s), acc * 10 + DigitVal(Head(s)))

\* strconv.ParseFloat(s, 64) on the literals of the model: an optional sign,
\* digits, an optional '.' and fraction digits, at least one digit in all.
\* A float is kept as its number of tenths; the literals of the model have at
\* most one fraction digit, so no rounding arises.
ParseFloat(s) ==
    IF s = <<>> THEN ParseErr
    ELSE LET neg == Head(s) = "-"
             body == IF Head(s) \in {"-", "+"} THEN Tail(s) ELSE s
             dot == IndexOf(body, ".")
             ip == IF dot = 0 THEN body ELSE SubSeq(body, 1, dot - 1)
             fp == IF dot = 0 THEN <<>> ELSE SubSeq(body, dot + 1, Len(body))
             wellFormed == /\ \A k \in 1..Len(ip) : IsDigit(ip[k])
                           /\ \A k \in 1..Len(fp) : IsDigit(fp[k])
                           /\ Len(ip) + Len(fp) > 0
             iv == FloatDigits(ip, 0)
             fv == IF fp = <<>> THEN 0 ELSE DigitVal(fp[1])
         IN  IF ~wellFormed THEN ParseErr
             ELSE [ok |-> TRUE, v |-> IF neg THEN -(iv * 10 + fv) ELSE iv * 10 + fv]

\* The conversion int(x) of a uint64 x: the same bits read as a signed value.
IntOfUint(u) == IF u > MaxInt THEN u - 2 ^ WordBits ELSE u

RECURSIVE Itoa(_)
\* The decimal literal of a natural number.
Itoa(n) == IF n < 10 THEN <<Digits[n + 1]>> ELSE Itoa(n \div 10) \o <<Digits[(n % 10) + 1]>>

(***************************************************************************)
(* decodeTagFields.                                                        *)
(***************************************************************************)
NoPanic == ""

EmptyFields == [k \in {} |-> <<>>]

NewParams ==
    [Name |-> <<>>, Required |-> FALSE, Fields |-> EmptyFields,
     seen |-> {}, panic |-> NoPanic]

\* One iteration of the loop of decodeTagFields over the clause v.
DecodeClause(p, v) ==
    LET splitRes == SplitN2(v, "=")
        key == splitRes[1]
        tagFieldValue == IF Len(splitRes) = 2 THEN splitRes[2] ELSE <<>>
        q == [p EXCEPT !.seen = p.seen \cup {key}]
    IN  IF key = <<>> THEN [p EXCEPT !.panic = "Empty tag field"]
        ELSE IF key \in p.seen THEN [p EXCEPT !.panic = "Tag field already defined"]
        ELSE IF key = TAG_FIELD_NAME
             THEN IF tagFieldValue = <<>>
                  THEN [q EXCEPT !.panic = "Tag field 'name' is empty"]
                  ELSE [q EXCEPT !.Name = tagFieldValue]
        ELSE IF key = TAG_FIELD_REQUIRED
             THEN IF tagFieldValue \in {<<>>, <<"true">>}
                  THEN [q EXCEPT !.Required = TRUE]
                  ELSE IF tagFieldValue = <<"false">>
                  THEN [q EXCEPT !.Required = FALSE]
                  ELSE [q EXCEPT !.panic = "Tag field 'required' has unknown value"]
        ELSE [q EXCEPT !.Fields =
                 [k \in DOMAIN p.Fields \cup {key} |->
                     IF k = key THEN tagFieldValue ELSE p.Fields[k]]]

RECURSIVE DecodeFrom(_, _, _)
DecodeFrom(tagFieldsRaw, n, p) ==
    IF n > Len(tagFieldsRaw) \/ p.panic # NoPanic THEN p
    ELSE DecodeFrom(tagFieldsRaw, n + 1, DecodeClause(p, tagFieldsRaw[n]))

\* decodeTagFields(tagFieldsRaw): the FieldValidationParams, or the panic.
decodeTagFields(tagFieldsRaw) == DecodeFrom(tagFieldsRaw, 1, NewParams)

(***************************************************************************)
(* Field kinds, field values and encoding/json.                            *)
(***************************************************************************)
\* reflect.Kind of a field, by its Go name.  A signed or unsigned integer is
\* kept as an integer, a float as its number of tenths, a string as its
\* tokens.
SignedKinds == {"int", "int8", "int16", "int32", "int64"}
UnsignedKinds == {"uint", "uint8", "uint16", "uint32", "uint64"}
FloatKinds == {"float32", "float64"}

\* The zero value a fresh destination struct holds.
Zero(kind) == IF kind = "string" THEN <<>> ELSE 0

\* A *json.RawMessage of the input map: a nil pointer, or the raw bytes of a
\* JSON number, a JSON string, null, or bytes that are no JSON value.
RawNil == [t |-> "nil", lit |-> <<>>]
RawNull == [t |-> "null", lit |-> <<>>]
RawBad == [t |-> "bad", lit |-> <<>>]
RawNum(lit) == [t |-> "num", lit |-> lit]
RawStr(lit) == [t |-> "str", lit |-> lit]

\* json.Unmarshal(raw, &field) for a field of the word-sized kinds of the
\* model: the error flag and the value the field holds afterwards.  null into
\* a non-pointer is no error and leaves the field alone; a number goes into
\* an integer kind through strconv.ParseInt / ParseUint of its literal.
Unmarshal(raw, kind, cur) ==
    LET fail == [err |-> TRUE, val |-> cur]
        set(v) == [err |-> FALSE, val |-> v]
    IN  CASE raw.t = "bad" -> fail
          [] raw.t = "null" -> set(cur)
          [] raw.t = "str" -> IF kind = "string" THEN set(raw.lit) ELSE fail
          [] raw.t = "num" ->
                IF kind \in SignedKinds
                THEN LET r == ParseInt(raw.lit) IN IF r.ok THEN set(r.v) ELSE fail
                ELSE IF kind \in UnsignedKinds
                THEN LET r == ParseUint(raw.lit) IN IF r.ok THEN set(r.v) ELSE fail
                ELSE IF kind \in FloatKinds
                THEN LET r == ParseFloat(raw.lit) IN IF r.ok THEN set(r.v) ELSE fail
                ELSE fail

(***************************************************************************)
(* setDefaultValue.                                                        *)
(***************************************************************************)
\* setDefaultValue with the reflect.String case left out.
setDefaultValueNoString(kind, rawValue) ==
    LET done(v) == [panic |-> NoPanic, val |-> v]
        abort(m) == [panic |-> m, val |-> Zero(kind)]
    IN  CASE kind = "uint" ->
                LET r == ParseUint(rawValue)
                IN  IF r.ok THEN done(r.v) ELSE abort("Unable to parse default as an unsigned integer")
          [] kind = "int" ->
                LET r == ParseInt(rawValue)
                IN  IF r.ok THEN done(r.v) ELSE abort("Unable to parse default as a signed integer")
          [] kind \in {"float32", "float64"} ->
                LET r == ParseFloat(rawValue)
                IN  IF r.ok THEN done(r.v) ELSE abort("Unable to parse default as a float")
          [] OTHER -> abort("Unsupported kind of value")

\* setDefaultValue(&field, rawValue): the panic, or the value assigned.
setDefaultValue(kind, rawValue) ==
    LET done(v) == [panic |-> NoPanic, val |-> v]
        abort(m) == [panic |-> m, val |-> Zero(kind)]
    IN  CASE kind = "uint" ->
                LET r == ParseUint(rawValue)
                IN  IF r.ok THEN done(r.v) ELSE abort("Unable to parse default as an unsigned integer")
          [] kind = "int" ->
                LET r == ParseInt(rawValue)
                IN  IF r.ok THEN done(r.v) ELSE abort("Unable to parse default as a signed integer")
          [] kind = "float32" ->
                LET r == ParseFloat(rawValue)
                IN  IF r.ok THEN done(r.v) ELSE abort("Unable to parse default as a float32")
          [] kind = "float64" ->
                LET r == ParseFloat(rawValue)
                IN  IF r.ok THEN done(r.v) ELSE abort("Unable to parse default as a float64")
          [] kind = "string" -> done(rawValue)
          [] OTHER -> abort("Unsupported kind of value")

(***************************************************************************)
(* The constraint loop of Validate (second revision).                      *)
(***************************************************************************)
\* The min/max case up to its last line: the panic, or the code and the
\* error left in the local valErr.
RangeValErr(tagName, tagRawVal, kind, fval) ==
    LET code(bound) ==
            IF tagName = TAG_FIELD_MAX /\ fval > bound THEN VALIDATE_ERR_CODE_TOO_BIG
            ELSE IF tagName = TAG_FIELD_MIN /\ fval < bound THEN VALIDATE_ERR_CODE_TOO_SMALL
            ELSE VALIDATE_ERR_CODE_UNKNOWN
        got(bound) == [panic |-> NoPanic, Code |-> code(bound),
                       Original |-> code(bound) # VALIDATE_ERR_CODE_UNKNOWN]
        abort(m) == [panic |-> m, Code |-> VALIDATE_ERR_CODE_UNKNOWN, Original |-> FALSE]
    IN  IF kind \in {"int", "int8", "int32", "int64"}
        THEN LET r == ParseInt(tagRawVal)
             IN  IF r.ok THEN got(r.v) ELSE abort("Unable to parse tag as a signed integer")
        ELSE IF kind \in {"uint", "uint8", "uint32", "uint64"}
        THEN LET r == ParseUint(tagRawVal)
             IN  IF r.ok THEN got(r.v) ELSE abort("Unable to parse tag as a unsigned integer")
        ELSE IF kind \in {"float32", "float64"}
        THEN LET r == ParseFloat(tagRawVal)
             IN  IF r.ok THEN got(r.v) ELSE abort("Unable to parse default as a float")
        ELSE abort("The field is not an integer or float")

Continue == [t |-> "next", Code |-> 0, msg |-> NoPanic]
Return(code) == [t |-> "return", Code |-> code, msg |-> NoPanic]
Panic(m) == [t |-> "panic", Code |-> 0, msg |-> m]

\* The min/max case as a whole: valErr is a local that the case never
\* returns, so the loop goes on unless the case panicked.
RangeCase(tagName, tagRawVal, kind, fval) ==
    LET valErr == RangeValErr(tagName, tagRawVal, kind, fval)
    IN  IF valErr.panic # NoPanic THEN Panic(valErr.panic) ELSE Continue

\* The minLen/maxLen case.
LenCase(tagName, tagRawVal, kind, fval) ==
    IF kind # "string" THEN Panic("The field is not a string")
    ELSE LET r == ParseUint(tagRawVal)
             reqLen == IntOfUint(r.v)
         IN  IF ~r.ok THEN Panic("Unable to parse tag as an unsigned integer")
             ELSE IF tagName = TAG_FIELD_MAX_LEN /\ GoLen(fval) > reqLen
             THEN Return(VALIDATE_ERR_CODE_TOO_LONG)
             ELSE IF tagName = TAG_FIELD_MIN_LEN /\ GoLen(fval) < reqLen
             THEN Return(VALIDATE_ERR_CODE_TOO_SHORT)
             ELSE Continue

\* One iteration of `for tagName, tagRawVal := range vParams.Fields`.
ConstraintCase(tagName, tagRawVal, kind, fval) ==
    IF tagName \in {TAG_FIELD_MIN, TAG_FIELD_MAX}
    THEN RangeCase(tagName, tagRawVal, kind, fval)
    ELSE IF tagName \in {TAG_FIELD_MIN_LEN, TAG_FIELD_MAX_LEN}
    THEN LenCase(tagName, tagRawVal, kind, fval)
    ELSE IF tagName = TAG_FIELD_ONE_OF THEN Continue
    ELSE IF tagName = TAG_FIELD_DEFAULT THEN Continue
    ELSE Panic("Unknown tag field")

\* The orders in which a range over a Go map with the keys S may visit them.
Orders(S) ==
    {o \in [1..Cardinality(S) -> S] : \A k \in S : \E n \in DOMAIN o : o[n] = k}

RECURSIVE RunFrom(_, _, _, _, _)
RunFrom(order, n, Fields, kind, fval) ==
    IF n > Len(order) THEN Continue
    ELSE LET oc == ConstraintCase(order[n], Fields[order[n]], kind, fval)
         IN  IF oc.t # "next" THEN oc ELSE RunFrom(order, n + 1, Fields, kind, fval)

\* The whole loop, visiting the keys in the given order: the first return or
\* panic, or Continue when every iteration falls through.
RangeOverFields(order, Fields, kind, fval) == RunFrom(order, 1, Fields, kind, fval)

\* The loop of the first revision: every key of Fields is an unknown one.
RangeOverFieldsV1(Fields) ==
    IF DOMAIN Fields = {} THEN Continue ELSE Panic("Unknown tag field")

(***************************************************************************)
(* State of one Validate call.                                             *)
(***************************************************************************)
VARIABLES
    rev,        \* which revision of Validate runs: "v1" or "v2"
    schema,     \* the struct type: per declared field its kind and its tag
    inputData,  \* the input map: key -> raw message
    out,        \* the destination struct: per field the value it holds
    i,          \* the loop variable of Validate (fields are numbered from 1)
    pc,         \* "Scanning", "Done" (Validate returned) or "Panic"
    result,     \* what Validate returned, or the panic
    visited,    \* history: the fields whose key was looked up, in order
    written     \* history: the fields whose storage was assigned

vars == <<rev, schema, inputData, out, i, pc, result, visited, written>>

Running == [t |-> "running", Code |-> 0, ParamName |-> <<>>, Original |-> FALSE, msg |-> NoPanic]
NilError == [t |-> "nil", Code |-> 0, ParamName |-> <<>>, Original |-> FALSE, msg |-> NoPanic]
\* &ValidateError{Code, ParamName, OriginalError}; Original tells whether
\* OriginalError is set.
ValidateError(code, name, original) ==
    [t |-> "error", Code |-> code, ParamName |-> name, Original |-> original, msg |-> NoPanic]
Panicked(m) == [t |-> "panic", Code |-> 0, ParamName |-> <<>>, Original |-> FALSE, msg |-> m]

(***************************************************************************)
(* Initial states: the schemas and inputs Validate is run on.              *)
(***************************************************************************)
KeyA == <<"a">>
KeyB == <<"b">>

Clause(key, value) == key \o <<"=">> \o value

\* The literal of the smallest unsigned value that int() turns negative.
WrapLit == Itoa(MaxInt + 1)

\* Clauses the tag under test is built from.
ClausePool ==
    << <<"required">>,
       Clause(TAG_FIELD_MIN, <<"1">>), Clause(TAG_FIELD_MAX, <<"1">>),
       Clause(TAG_FIELD_MIN_LEN, <<"3">>), Clause(TAG_FIELD_MAX_LEN, <<"0">>),
       Clause(TAG_FIELD_MIN_LEN, WrapLit),
       Clause(TAG_FIELD_DEFAULT, <<"1">>),
       <<"bogus">> >>

RECURSIVE PickFrom(_, _)
\* The sequences of at most n clauses of the pool, in pool order, that begin
\* at or after position from.
PickFrom(from, n) ==
    IF n = 0 \/ from > Len(ClausePool) THEN {<<>>}
    ELSE {<<>>} \cup
         UNION {{<<ClausePool[k]>> \o rest : rest \in PickFrom(k + 1, n - 1)} :
                    k \in from..Len(ClausePool)}

NameA == Clause(TAG_FIELD_NAME, KeyA)

\* Further tags: the ways to break the tag grammar, the other spellings of
\* the required clause, an enumeration, a negative default, no name clause.
OddTags ==
    { Join(<<NameA, Clause(TAG_FIELD_REQUIRED, <<"true">>)>>, ","),
      Join(<<NameA, Clause(TAG_FIELD_REQUIRED, <<"true">>),
             Clause(TAG_FIELD_DEFAULT, <<"1">>)>>, ","),
      Join(<<NameA, Clause(TAG_FIELD_ONE_OF, <<"red", "|", "green">>)>>, ","),
      Join(<<NameA, <<>>>>, ","),
      Join(<<NameA, <<"=", "1">>>>, ","),
      Clause(TAG_FIELD_NAME, <<>>),
      Join(<<NameA, Clause(TAG_FIELD_REQUIRED, <<"x">>)>>, ","),
      Join(<<NameA, Clause(TAG_FIELD_MIN, <<"1">>), Clause(TAG_FIELD_MIN, <<"1">>)>>, ","),
      Join(<<NameA, Clause(TAG_FIELD_REQUIRED, <<"false">>)>>, ","),
      Join(<<NameA, Clause(TAG_FIELD_MIN, <<"x">>)>>, ","),
      Join(<<NameA, Clause(TAG_FIELD_DEFAULT, <<"-", "1">>)>>, ","),
      <<"required">> }

MainTags == {Join(<<NameA>> \o cs, ",") : cs \in PickFrom(1, MaxClauses)} \cup OddTags

MainKinds == {"int", "int64", "uint", "float64", "string"}

Field(kind, tagged, tag) == [kind |-> kind, tagged |-> tagged, tag |-> tag]

MainFields ==
    {Field(k, TRUE, t) : k \in MainKinds, t \in MainTags} \cup {Field("int", FALSE, <<>>)}

NameB == Clause(TAG_FIELD_NAME, KeyB)

\* Side fields, bound to a key the input never holds: one that fails as a
\* missing required field and one that passes by taking its default.
SideFields ==
    { Field("int", TRUE, Join(<<NameB, <<"required">>>>, ",")),
      Field("int", TRUE, Join(<<NameB, Clause(TAG_FIELD_DEFAULT, <<"1">>)>>, ",")) }

RECURSIVE SideSeqs(_)
SideSeqs(n) ==
    IF n = 0 THEN {<<>>}
    ELSE {<<>>} \cup {<<f>> \o r : f \in SideFields, r \in SideSeqs(n - 1)}

SidePairs ==
    {pp \in SideSeqs(MaxSideFields) \X SideSeqs(MaxSideFields) :
        Len(pp[1]) + Len(pp[2]) <= MaxSideFields}

\* The struct types: the field under test, with side fields before or after.
Schemas == {pp[1] \o <<m>> \o pp[2] : m \in MainFields, pp \in SidePairs}

\* decodeTagFields(strings.Split(tagValue, ",")) of every tag of the model.
\* The parse depends on the tag alone, so it is tabulated once.
AllTags == MainTags \cup {f.tag : f \in SideFields} \cup {<<>>}

ParsedTags == [t \in AllTags |-> decodeTagFields(Split(t, ","))]

Absent == [t |-> "absent", lit |-> <<>>]

\* What the input map may hold under the key of the field under test.
RawsA ==
    { Absent, RawNil, RawNull, RawBad,
      RawNum(<<"0">>), RawNum(<<"1">>), RawNum(<<"2">>), RawNum(<<"1", ".", "5">>),
      RawStr(<<>>), RawStr(<<"a">>), RawStr(<<"red">>) }

InputMap(a) == [k \in (IF a = Absent THEN {} ELSE {KeyA}) |-> a]

Init ==
    /\ rev \in {"v1", "v2"}
    /\ schema \in Schemas
    /\ \E a \in RawsA : inputData = InputMap(a)
    /\ out = [n \in 1..Len(schema) |-> Zero(schema[n].kind)]
    /\ i = 1
    /\ pc = "Scanning"
    /\ result = Running
    /\ visited = <<>>
    /\ written = {}

(***************************************************************************)
(* Validate: one step per iteration of `for i := 0; i < NumField(); i++`.  *)
(***************************************************************************)
NumField == Len(schema)

InLoop == pc = "Scanning" /\ i <= NumField

\* structField.Tag.Lookup(VALIDATE_TAG_NAME) found a tag.
Tagged == schema[i].tagged

\* decodeTagFields(strings.Split(tagValue, ",")) for the current field.
CurParams ==
    IF InLoop /\ Tagged THEN ParsedTags[schema[i].tag] ELSE NewParams

\* val, ok := inputData[vParams.Name]
Present(vParams) == vParams.Name \in DOMAIN inputData

\* Leave with the error recorded but the scan going on to the next field.
LeaveKeepsScanning(res) ==
    IF res.t = "error"
    THEN /\ result' = res
         /\ pc' = pc
         /\ i' = i + 1
    ELSE /\ pc' = (IF res.t = "panic" THEN "Panic" ELSE "Done")
         /\ result' = res
         /\ i' = i

\* Validate leaves through a return or a panic.
Leave(res) ==
    /\ pc' = (IF res.t = "panic" THEN "Panic" ELSE "Done")
    /\ result' = res
    /\ i' = i

\* The loop body ends (or hits continue): on to the next field.
NextField ==
    /\ i' = i + 1
    /\ UNCHANGED <<pc, result>>

\* What follows the constraint loop of the current field.
AfterLoop(vParams, oc) ==
    IF oc.t = "next" THEN NextField
    ELSE IF oc.t = "return" THEN Leave(ValidateError(oc.Code, vParams.Name, TRUE))
    ELSE Leave(Panicked(oc.msg))

Lookup == visited' = Append(visited, i)

\* `return nil` after the loop.
ReturnNil ==
    /\ pc = "Scanning"
    /\ i > NumField
    /\ Leave(NilError)
    /\ UNCHANGED <<rev, schema, inputData, out, visited, written>>

\* A field without a validate tag: continue.
SkipUntagged ==
    /\ InLoop
    /\ ~Tagged
    /\ NextField
    /\ UNCHANGED <<rev, schema, inputData, out, visited, written>>

\* decodeTagFields panics on the tag of the current field.
TagPanic ==
    \E vParams \in {CurParams} :
    /\ InLoop
    /\ Tagged
    /\ vParams.panic # NoPanic
    /\ Leave(Panicked(vParams.panic))
    /\ UNCHANGED <<rev, schema, inputData, out, visited, written>>

Decoded(vParams) == InLoop /\ Tagged /\ vParams.panic = NoPanic

\* The key is absent and the field is required.  The first revision leaves
\* OriginalError nil, the second sets it.
MissingRequired ==
    \E vParams \in {CurParams} :
    /\ Decoded(vParams)
    /\ ~Present(vParams)
    /\ vParams.Required
    /\ Lookup
    /\ Leave(ValidateError(VALIDATE_ERR_CODE_MISSING_REQ_PARAM, vParams.Name, rev = "v2"))
    /\ UNCHANGED <<rev, schema, inputData, out, written>>

\* Second revision: the key is absent, the field optional, no default.
V2AbsentContinue ==
    \E vParams \in {CurParams} :
    /\ rev = "v2"
    /\ Decoded(vParams)
    /\ ~Present(vParams)
    /\ ~vParams.Required
    /\ TAG_FIELD_DEFAULT \notin DOMAIN vParams.Fields
    /\ Lookup
    /\ NextField
    /\ UNCHANGED <<rev, schema, inputData, out, written>>

\* V2Default with the default looked for before the required flag.
V2DefaultBeforeRequired ==
    \E vParams \in {CurParams} :
    /\ rev = "v2"
    /\ Decoded(vParams)
    /\ ~Present(vParams)
    /\ TAG_FIELD_DEFAULT \in DOMAIN vParams.Fields
    /\ Lookup
    /\ LET d == setDefaultValue(schema[i].kind, vParams.Fields[TAG_FIELD_DEFAULT])
       IN  IF d.panic # NoPanic
           THEN /\ Leave(Panicked(d.panic))
                /\ UNCHANGED <<out, written>>
           ELSE /\ out' = [out EXCEPT ![i] = d.val]
                /\ written' = written \cup {i}
                /\ \E order \in Orders(DOMAIN vParams.Fields) :
                      AfterLoop(vParams, RangeOverFields(order, vParams.Fields, schema[i].kind, d.val))
    /\ UNCHANGED <<rev, schema, inputData>>

\* Second revision: the key is absent, the field optional, with a default:
\* setDefaultValue, then the constraint loop on the value assigned.
V2Default ==
    \E vParams \in {CurParams} :
    /\ rev = "v2"
    /\ Decoded(vParams)
    /\ ~Present(vParams)
    /\ ~vParams.Required
    /\ TAG_FIELD_DEFAULT \in DOMAIN vParams.Fields
    /\ Lookup
    /\ LET d == setDefaultValue(schema[i].kind, vParams.Fields[TAG_FIELD_DEFAULT])
       IN  IF d.panic # NoPanic
           THEN /\ Leave(Panicked(d.panic))
                /\ UNCHANGED <<out, written>>
           ELSE /\ out' = [out EXCEPT ![i] = d.val]
                /\ written' = written \cup {i}
                /\ \E order \in Orders(DOMAIN vParams.Fields) :
                      AfterLoop(vParams, RangeOverFields(order, vParams.Fields, schema[i].kind, d.val))
    /\ UNCHANGED <<rev, schema, inputData>>

\* Second revision: the key is present: json.Unmarshal(*val, &field), then
\* the constraint loop on the decoded value.
V2Decode ==
    \E vParams \in {CurParams} :
    /\ rev = "v2"
    /\ Decoded(vParams)
    /\ Present(vParams)
    /\ Lookup
    /\ LET val == inputData[vParams.Name]
           u == Unmarshal(val, schema[i].kind, out[i])
       IN  IF val = RawNil
           THEN /\ Leave(Panicked("nil pointer dereference"))
                /\ UNCHANGED <<out, written>>
           ELSE IF u.err
           THEN /\ Leave(ValidateError(VALIDATE_ERR_CODE_UNPARSABLE, vParams.Name, TRUE))
                /\ UNCHANGED <<out, written>>
           ELSE /\ out' = [out EXCEPT ![i] = u.val]
                /\ written' = (IF val = RawNull THEN written ELSE written \cup {i})
                /\ \E order \in Orders(DOMAIN vParams.Fields) :
                      AfterLoop(vParams, RangeOverFields(order, vParams.Fields, schema[i].kind, u.val))
    /\ UNCHANGED <<rev, schema, inputData>>

\* First revision: the key is absent and the field optional: continue.
V1AbsentContinue ==
    \E vParams \in {CurParams} :
    /\ rev = "v1"
    /\ Decoded(vParams)
    /\ ~Present(vParams)
    /\ ~vParams.Required
    /\ Lookup
    /\ NextField
    /\ UNCHANGED <<rev, schema, inputData, out, written>>

\* First revision: the key is present: json.Unmarshal, then the loop over
\* vParams.Fields, where every key is unknown.
V1Decode ==
    \E vParams \in {CurParams} :
    /\ rev = "v1"
    /\ Decoded(vParams)
    /\ Present(vParams)
    /\ Lookup
    /\ LET val == inputData[vParams.Name]
           u == Unmarshal(val, schema[i].kind, out[i])
       IN  IF val = RawNil
           THEN /\ Leave(Panicked("nil pointer dereference"))
                /\ UNCHANGED <<out, written>>
           ELSE IF u.err
           THEN /\ Leave(ValidateError(VALIDATE_ERR_CODE_UNPARSABLE, vParams.Name, TRUE))
                /\ UNCHANGED <<out, written>>
           ELSE /\ out' = [out EXCEPT ![i] = u.val]
                /\ written' = (IF val = RawNull THEN written ELSE written \cup {i})
                /\ AfterLoop(vParams, RangeOverFieldsV1(vParams.Fields))
    /\ UNCHANGED <<rev, schema, inputData>>

Next ==
    \/ ReturnNil
    \/ SkipUntagged
    \/ TagPanic
    \/ MissingRequired
    \/ V2AbsentContinue
    \/ V2Default
    \/ V2Decode
    \/ V1AbsentContinue
    \/ V1Decode

Spec == Init /\ [][Next]_vars

(***************************************************************************)
(* Vocabulary of the properties.                                           *)
(***************************************************************************)
SeqRange(q) == {q[k] : k \in DOMAIN q}

FieldNos == 1..NumField

\* The parsed tag of field j.
ParamsOf(j) == ParsedTags[schema[j].tag]

\* Field j carries a tag that decodeTagFields accepts.
WellTagged(j) == schema[j].tagged /\ ParamsOf(j).panic = NoPanic

\* The clause names of the tag of field j, as written.
ClauseNames(j) ==
    {SplitN2(c, "=")[1] : c \in SeqRange(Split(schema[j].tag, ","))}

\* The clauses of the tag of field j, as written.
Clauses(j) == SeqRange(Split(schema[j].tag, ","))

KeyAbsent(j) == ParamsOf(j).Name \notin DOMAIN inputData

\* The key of field j is in the input and its value decodes into the field.
DecodesOk(j) ==
    /\ ~KeyAbsent(j)
    /\ inputData[ParamsOf(j).Name].t \in {"num", "str"}
    /\ ~Unmarshal(inputData[ParamsOf(j).Name], schema[j].kind, Zero(schema[j].kind)).err

\* Validate has gone through the loop body of field j.
Handled(j) == j \in SeqRange(visited)

\* Validate returned the error `code` for field j.
StoppedWith(j, code) ==
    /\ pc = "Done"
    /\ i = j
    /\ result.t = "error"
    /\ result.Code = code
    /\ result.ParamName = ParamsOf(j).Name

Untouched(j) == j \notin written /\ out[j] = Zero(schema[j].kind)

NumericKinds == SignedKinds \cup UnsignedKinds \cup FloatKinds

\* The value a bound literal denotes for a field of the given kind.
BoundOf(kind, lit) ==
    IF kind \in SignedKinds THEN ParseInt(lit)
    ELSE IF kind \in UnsignedKinds THEN ParseUint(lit)
    ELSE ParseFloat(lit)

HasClause(j, key) == key \in DOMAIN ParamsOf(j).Fields

ClauseVal(j, key) == ParamsOf(j).Fields[key]

(***************************************************************************)
(* C1.  Range constraints.                                                 *)
(***************************************************************************)
C1Case(j) ==
    /\ rev = "v2"
    /\ Handled(j)
    /\ WellTagged(j)
    /\ schema[j].kind \in NumericKinds
    /\ DecodesOk(j)
    /\ DOMAIN ParamsOf(j).Fields \subseteq {TAG_FIELD_MIN, TAG_FIELD_MAX}
    /\ \A key \in DOMAIN ParamsOf(j).Fields : BoundOf(schema[j].kind, ClauseVal(j, key)).ok

BelowMin(j) ==
    HasClause(j, TAG_FIELD_MIN) /\ out[j] < BoundOf(schema[j].kind, ClauseVal(j, TAG_FIELD_MIN)).v

AboveMax(j) ==
    HasClause(j, TAG_FIELD_MAX) /\ out[j] > BoundOf(schema[j].kind, ClauseVal(j, TAG_FIELD_MAX)).v

\* C1: a numeric field whose key is present and decodes: a value below the
\* min bound makes Validate return TooSmall, a value above the max bound
\* makes it return TooBig, and a value within the bounds (a bound included)
\* gets no range error.
C1_RangeErrors ==
    \A j \in FieldNos :
        C1Case(j) =>
            /\ BelowMin(j) => StoppedWith(j, VALIDATE_ERR_CODE_TOO_SMALL)
            /\ AboveMax(j) => StoppedWith(j, VALIDATE_ERR_CODE_TOO_BIG)
            /\ (~BelowMin(j) /\ ~AboveMax(j)) =>
                   /\ ~StoppedWith(j, VALIDATE_ERR_CODE_TOO_SMALL)
                   /\ ~StoppedWith(j, VALIDATE_ERR_CODE_TOO_BIG)

(***************************************************************************)
(* C2.  Enumeration constraint.                                            *)
(***************************************************************************)
C2Case(j) ==
    /\ rev = "v2"
    /\ Handled(j)
    /\ WellTagged(j)
    /\ schema[j].kind = "string"
    /\ DecodesOk(j)
    /\ DOMAIN ParamsOf(j).Fields = {TAG_FIELD_ONE_OF}

\* The literals of a oneof clause, '|' being the delimiter.
OneOfLiterals(j) == SeqRange(Split(ClauseVal(j, TAG_FIELD_ONE_OF), "|"))

\* C2: a field with a oneof clause whose key is present and decodes: a value
\* that is none of the literals makes Validate return InvalidEnum, a value
\* that is one of them gets no enum error.
C2_InvalidEnum ==
    \A j \in FieldNos :
        C2Case(j) =>
            IF out[j] \in OneOfLiterals(j)
            THEN ~StoppedWith(j, VALIDATE_ERR_CODE_INVALID)
            ELSE StoppedWith(j, VALIDATE_ERR_CODE_INVALID)

(***************************************************************************)
(* C3.  Unknown clause names.                                              *)
(***************************************************************************)
KnownNames ==
    { TAG_FIELD_NAME, TAG_FIELD_REQUIRED, TAG_FIELD_MIN, TAG_FIELD_MAX,
      TAG_FIELD_MIN_LEN, TAG_FIELD_MAX_LEN, TAG_FIELD_DEFAULT, TAG_FIELD_ONE_OF }

HasUnknownName(j) == schema[j].tagged /\ ~(ClauseNames(j) \subseteq KnownNames)

\* C3: when a tagged field of the destination has a clause name outside the
\* recognized set, Validate never returns (neither success nor an error):
\* the call ends in a panic.
C3_UnknownNameIsFatal ==
    (\E j \in FieldNos : HasUnknownName(j)) => pc # "Done"

(***************************************************************************)
(* C4.  Defaults.                                                          *)
(***************************************************************************)
\* What a default literal is as a value of the given kind.
Coerced(kind, lit) ==
    IF kind = "int" THEN ParseInt(lit)
    ELSE IF kind = "uint" THEN ParseUint(lit)
    ELSE IF kind \in FloatKinds THEN ParseFloat(lit)
    ELSE [ok |-> TRUE, v |-> lit]

C4Case(j) ==
    /\ rev = "v2"
    /\ Handled(j)
    /\ WellTagged(j)
    /\ schema[j].kind \in {"int", "uint", "float32", "float64", "string"}
    /\ HasClause(j, TAG_FIELD_DEFAULT)
    /\ Coerced(schema[j].kind, ClauseVal(j, TAG_FIELD_DEFAULT)).ok
    /\ KeyAbsent(j)

DefaultAssigned(j) ==
    /\ j \in written
    /\ out[j] = Coerced(schema[j].kind, ClauseVal(j, TAG_FIELD_DEFAULT)).v
    /\ ~StoppedWith(j, VALIDATE_ERR_CODE_MISSING_REQ_PARAM)

\* C4 as stated: a field with a default clause whose key is absent is
\* assigned the coerced default and is never reported missing, whatever
\* other clauses the tag carries.
C4_DefaultWhateverClauses ==
    \A j \in FieldNos : C4Case(j) => DefaultAssigned(j)

\* C4 as amended: the same for a field that is not marked required.
C4_DefaultWhenOptional ==
    \A j \in FieldNos : (C4Case(j) /\ ~ParamsOf(j).Required) => DefaultAssigned(j)

C4_Witness ==
    /\ pc = "Done"
    /\ result.t = "nil"
    /\ \E j \in FieldNos :
          /\ C4Case(j)
          /\ ~ParamsOf(j).Required
          /\ schema[j].kind = "float64"
          /\ out[j] = 10
          /\ HasClause(j, TAG_FIELD_MAX)

(***************************************************************************)
(* C5.  Missing required field.                                            *)
(***************************************************************************)
MarkedRequired(j) ==
    Clauses(j) \cap {<<"required">>, Clause(TAG_FIELD_REQUIRED, <<"true">>)} # {}

RequiredAbsent(j) == WellTagged(j) /\ MarkedRequired(j) /\ KeyAbsent(j)

\* C5: Validate never gets past a required field whose key is absent; when
\* the scan stands at such a field its storage is unmodified, and when the
\* call ends there it returned MissingRequired with the tag's name, whatever
\* other clauses the tag carries.
C5_MissingRequired ==
    \A j \in FieldNos :
        RequiredAbsent(j) =>
            /\ i <= j
            /\ i = j => Untouched(j)
            /\ (i = j /\ pc # "Scanning") =>
                   StoppedWith(j, VALIDATE_ERR_CODE_MISSING_REQ_PARAM)

C5_Witness ==
    /\ NumField = 2
    /\ i = 2
    /\ RequiredAbsent(2)
    /\ HasClause(2, TAG_FIELD_DEFAULT)
    /\ Clause(TAG_FIELD_REQUIRED, <<"true">>) \in Clauses(2)
    /\ StoppedWith(2, VALIDATE_ERR_CODE_MISSING_REQ_PARAM)
    /\ Untouched(2)
    /\ 1 \in written

(***************************************************************************)
(* C6.  Length constraints.                                                *)
(***************************************************************************)
LenNames == {TAG_FIELD_MIN_LEN, TAG_FIELD_MAX_LEN}

C6Case(j) ==
    /\ rev = "v2"
    /\ Handled(j)
    /\ WellTagged(j)
    /\ schema[j].kind = "string"
    /\ DecodesOk(j)
    /\ DOMAIN ParamsOf(j).Fields \subseteq LenNames
    /\ \A key \in DOMAIN ParamsOf(j).Fields : ParseUint(ClauseVal(j, key)).ok

TooShortFor(j) ==
    HasClause(j, TAG_FIELD_MIN_LEN) /\ GoLen(out[j]) < ParseUint(ClauseVal(j, TAG_FIELD_MIN_LEN)).v

TooLongFor(j) ==
    HasClause(j, TAG_FIELD_MAX_LEN) /\ GoLen(out[j]) > ParseUint(ClauseVal(j, TAG_FIELD_MAX_LEN)).v

\* The length errors field j has earned.
LenCodes(j) ==
    (IF TooShortFor(j) THEN {VALIDATE_ERR_CODE_TOO_SHORT} ELSE {}) \cup
    (IF TooLongFor(j) THEN {VALIDATE_ERR_CODE_TOO_LONG} ELSE {})

LenErrorAt(j) ==
    \/ StoppedWith(j, VALIDATE_ERR_CODE_TOO_SHORT)
    \/ StoppedWith(j, VALIDATE_ERR_CODE_TOO_LONG)

\* C6: a text field whose key is present and decodes: a length below the
\* minLen bound makes Validate return TooShort, a length above the maxLen
\* bound makes it return TooLong (either one when both bounds are broken),
\* and a length within the bounds (a bound included) gets no length error.
C6_LengthErrors ==
    \A j \in FieldNos :
        C6Case(j) =>
            IF LenCodes(j) = {} THEN ~LenErrorAt(j)
            ELSE \E code \in LenCodes(j) : StoppedWith(j, code)

(***************************************************************************)
(* C7.  The first violation in the fixed order.                            *)
(***************************************************************************)
FixedRank(key) ==
    CASE key = TAG_FIELD_MIN -> 1
      [] key = TAG_FIELD_MAX -> 2
      [] key = TAG_FIELD_MIN_LEN -> 3
      [] key = TAG_FIELD_MAX_LEN -> 4
      [] key = TAG_FIELD_ONE_OF -> 5
      [] OTHER -> 6

\* The clauses of field j in the order min, max, minLen, maxLen, oneof.
FixedOrder(j) ==
    CHOOSE o \in Orders(DOMAIN ParamsOf(j).Fields) :
        \A m, n \in DOMAIN o : m < n => FixedRank(o[m]) <= FixedRank(o[n])

\* Validate ran the constraint loop of field j.
LoopRan(j) ==
    /\ rev = "v2"
    /\ Handled(j)
    /\ WellTagged(j)
    /\ DOMAIN ParamsOf(j).Fields \subseteq KnownNames
    /\ \/ DecodesOk(j)
       \/ /\ KeyAbsent(j)
          /\ ~ParamsOf(j).Required
          /\ HasClause(j, TAG_FIELD_DEFAULT)
          /\ j \in written

\* C7: the error returned is the one the fixed order meets first, so the
\* error kind and field name depend on schema and input alone.
C7_FirstInFixedOrder ==
    \A j \in FieldNos :
        LoopRan(j) =>
            LET oc == RangeOverFields(FixedOrder(j), ParamsOf(j).Fields, schema[j].kind, out[j])
            IN  oc.t = "return" => StoppedWith(j, oc.Code)

(***************************************************************************)
(* C8.  Malformed tags.                                                    *)
(***************************************************************************)
Malformed(j) == schema[j].tagged /\ ParamsOf(j).panic # NoPanic

\* C8: when any tagged field has a malformed tag, Validate never returns
\* (neither success nor an input validation error for another field).
C8_MalformedTagIsFatal ==
    (\E j \in FieldNos : Malformed(j)) => pc # "Done"

(***************************************************************************)
(* C9.  One linear pass.                                                   *)
(***************************************************************************)
\* C9: fields are looked up at most once, in declaration order; a return
\* ends the scan, with success only after the last field; the fields after
\* the current one have not been looked up or modified; untagged fields and
\* absent optional fields without a default are never modified.
C9_LinearPass ==
    /\ \A m, n \in DOMAIN visited : m < n => visited[m] < visited[n]
    /\ \A j \in SeqRange(visited) : j <= i
    /\ (pc = "Scanning") = (result.t = "running")
    /\ (pc = "Done") = (result.t \in {"nil", "error"})
    /\ result.t = "nil" => i = NumField + 1
    /\ result.t = "error" => i \in FieldNos /\ visited # <<>> /\ visited[Len(visited)] = i
    /\ \A j \in FieldNos :
          /\ j > i => ~Handled(j) /\ Untouched(j)
          /\ ~schema[j].tagged => ~Handled(j) /\ Untouched(j)
          /\ (WellTagged(j) /\ KeyAbsent(j) /\ ~ParamsOf(j).Required
                /\ ~HasClause(j, TAG_FIELD_DEFAULT)) => Untouched(j)

C9_Witness ==
    /\ pc = "Done"
    /\ result.t = "error"
    /\ result.Code = VALIDATE_ERR_CODE_TOO_LONG
    /\ i = 1
    /\ NumField = 2
    /\ HasClause(2, TAG_FIELD_DEFAULT)
    /\ Untouched(2)
    /\ 1 \in written

(***************************************************************************)
(* C10.  Defaults are checked like decoded values.                         *)
(***************************************************************************)
C10Case(j) ==
    /\ rev = "v2"
    /\ Handled(j)
    /\ WellTagged(j)
    /\ schema[j].kind = "string"
    /\ KeyAbsent(j)
    /\ ~ParamsOf(j).Required
    /\ HasClause(j, TAG_FIELD_DEFAULT)
    /\ DOMAIN ParamsOf(j).Fields \subseteq LenNames \cup {TAG_FIELD_DEFAULT}
    /\ \A key \in DOMAIN ParamsOf(j).Fields \cap LenNames : ParseUint(ClauseVal(j, key)).ok

DefaultLen(j) == GoLen(ClauseVal(j, TAG_FIELD_DEFAULT))

DefaultBreaksLen(j) ==
    \/ /\ HasClause(j, TAG_FIELD_MIN_LEN)
       /\ DefaultLen(j) < ParseUint(ClauseVal(j, TAG_FIELD_MIN_LEN)).v
    \/ /\ HasClause(j, TAG_FIELD_MAX_LEN)
       /\ DefaultLen(j) > ParseUint(ClauseVal(j, TAG_FIELD_MAX_LEN)).v

\* C10: an absent optional text field whose default literal breaks the
\* tag's own minLen or maxLen bound is assigned the default, and Validate
\* then returns TooShort or TooLong for it.
C10_DefaultIsChecked ==
    \A j \in FieldNos :
        (C10Case(j) /\ DefaultBreaksLen(j)) =>
            /\ out[j] = ClauseVal(j, TAG_FIELD_DEFAULT)
            /\ LenErrorAt(j)
====
